---- MODULE Spec2Model ----
(***************************************************************************)
(* Variance analysis tool: the CSV aggregation pipeline (processCSVData),  *)
(* the memo selector (getTop85Memos), the factual commentary generator     *)
(* (generatePythonCommentary) and the commentary enhancer (enhanceWithAI)  *)
(* of src/src/App.jsx.                                                      *)
(*                                                                         *)
(* Representation.                                                         *)
(*  - A CSV cell is a TLA+ string; an absent cell (JavaScript undefined)   *)
(*    is the value `undefined`, JavaScript null is `null`.  Both are       *)
(*    strings no cell of the row universes is equal to.                    *)
(*  - A JavaScript number is an integer count of 1/Scale units.  The       *)
(*    numeric cells of the row universes are multiples of 1/Scale, with    *)
(*    Scale a power of two, so every sum and difference the code computes  *)
(*    in IEEE double arithmetic is exact and equals the value computed     *)
(*    here.  Math.round results are plain integers.                        *)
(*  - variancePct, a quotient, is the exact ratio [num, den] in lowest     *)
(*    terms (the double the code computes is its nearest double up to the  *)
(*    rounding of one division and one multiplication).                    *)
(*  - An object used as a map (catMap, driverMap) is the sequence of its   *)
(*    entries in insertion order, which is the order Object.values         *)
(*    returns for keys that are not array indices.                         *)
(***************************************************************************)
EXTENDS Integers, Sequences, FiniteSets, TLC

VARIABLES
    analysisType,   \* "accounting" | "finance"
    files,          \* the selected files, each one the rows Papa.parse gives for it
    market,         \* the market scope buttons: "all" | "nonjp" | "jp"
    analyzing,      \* a run is in progress
    progress,       \* the progress bar, 0..100
    results,        \* null or the result bundle
    rows,           \* parsed.data: the rows handed to processCSVData
    marketFilter,   \* "All" | "JP" | "Non-JP"
    numComments,    \* requested number of commentary items
    commentary,     \* commentary mode: "ai" | "python" | "none"
    pc,             \* position of the run
    categories,     \* processCSVData(...).categories
    drivers,        \* processCSVData(...).drivers
    commentaryItems,\* the commentaryItems of runAnalysis
    memoCategory,   \* categoryName argument of the last getTop85Memos call
    memos,          \* result of the last getTop85Memos call
    enhanced,       \* enhanceWithAI: the array being filled
    itemIndex,      \* enhanceWithAI: the loop variable i (0-based, as in the code)
    response,       \* enhanceWithAI: the Response whose body is being read
    requests,       \* bodies of the requests issued so far, in order
    pending,        \* number of requests issued and not yet settled
    outcomes        \* what happened to each item visited so far, in order

uiVars == <<analysisType, files, market, analyzing, results>>
inputVars == <<rows, marketFilter, numComments, commentary>>
csvVars == <<categories, drivers>>
memoVars == <<memoCategory, memos>>
aiVars == <<enhanced, itemIndex, response, requests, pending, outcomes>>

vars == <<analysisType, files, market, analyzing, progress, results,
         rows, marketFilter, numComments, commentary, pc, categories, drivers,
         commentaryItems, memoCategory, memos, enhanced, itemIndex, response,
         requests,
         pending, outcomes>>

-----------------------------------------------------------------------------
(* JavaScript values *)

undefined == "<undefined>"
null == "<null>"

\* !x for a cell: undefined, null and the empty string are falsy
Falsy(x) == x = undefined \/ x = null \/ x = ""

\* `${x}` in a template literal
ToStr(x) == IF x = undefined THEN "undefined" ELSE IF x = null THEN "null" ELSE x

Scale == 4

Abs(n) == IF n < 0 THEN -n ELSE n

\* Math.round on a number held in 1/Scale units: the nearest integer, ties up
MathRound(n) == (2 * n + Scale) \div (2 * Scale)

RECURSIVE Gcd(_, _)
Gcd(a, b) == IF b = 0 THEN a ELSE Gcd(b, a % b)

\* the exact quotient n / d (d # 0) in lowest terms with a positive denominator
Ratio(n, d) ==
    LET g == Gcd(Abs(n), Abs(d))
        s == IF d < 0 THEN -1 ELSE 1
    IN  [num |-> s * (n \div g), den |-> s * (d \div g)]

-----------------------------------------------------------------------------
(* parseNum: App.jsx line 62 *)

Digits == <<"0", "1", "2", "3", "4", "5", "6", "7", "8", "9">>

IsDigit(c) == \E d \in 1..10 : Digits[d] = c

DigitVal(c) == (CHOOSE d \in 1..10 : Digits[d] = c) - 1

\* s.replace(/,/g, "")
RECURSIVE StripCommas(_)
StripCommas(s) ==
    IF s = "" THEN ""
    ELSE IF Head(s) = "," THEN StripCommas(Tail(s))
    ELSE Head(s) \o StripCommas(Tail(s))

\* the longest prefix of s made of decimal digits
RECURSIVE DigitPrefix(_)
DigitPrefix(s) ==
    IF s = "" \/ ~IsDigit(Head(s)) THEN ""
    ELSE Head(s) \o DigitPrefix(Tail(s))

RECURSIVE DigitsValue(_, _)
DigitsValue(s, acc) ==
    IF s = "" THEN acc ELSE DigitsValue(Tail(s), 10 * acc + DigitVal(Head(s)))

RECURSIVE Pow10(_)
Pow10(k) == IF k = 0 THEN 1 ELSE 10 * Pow10(k - 1)

RECURSIVE SkipSpaces(_)
SkipSpaces(s) == IF s # "" /\ Head(s) = " " THEN SkipSpaces(Tail(s)) ELSE s

\* parseFloat(s): leading white space is skipped, then the longest prefix that
\* is a decimal literal (sign, digits, fraction) is converted; no such prefix
\* gives NaN.  (Exponents and "Infinity" do not occur in the cell universes.)
parseFloat(s) ==
    LET t    == SkipSpaces(s)
        neg  == t # "" /\ Head(t) = "-"
        sgn  == t # "" /\ Head(t) \in {"-", "+"}
        u    == IF sgn THEN Tail(t) ELSE t
        ip   == DigitPrefix(u)
        r    == SubSeq(u, Len(ip) + 1, Len(u))
        fp   == IF r # "" /\ Head(r) = "." THEN DigitPrefix(Tail(r)) ELSE ""
        mag  == ((DigitsValue(ip, 0) * Pow10(Len(fp)) + DigitsValue(fp, 0)) * Scale)
                    \div Pow10(Len(fp))
    IN  IF ip = "" /\ fp = "" THEN [nan |-> TRUE, val |-> 0]
        ELSE [nan |-> FALSE, val |-> IF neg THEN -mag ELSE mag]

\* whether parseFloat(s) is a multiple of 1/Scale (no precision is lost above)
ExactCell(s) ==
    LET t  == SkipSpaces(StripCommas(s))
        u  == IF t # "" /\ Head(t) \in {"-", "+"} THEN Tail(t) ELSE t
        ip == DigitPrefix(u)
        r  == SubSeq(u, Len(ip) + 1, Len(u))
        fp == IF r # "" /\ Head(r) = "." THEN DigitPrefix(Tail(r)) ELSE ""
    IN  (DigitsValue(fp, 0) * Scale) % Pow10(Len(fp)) = 0

\* parseNum without the comma removal
parseNum_KeepCommas(s) ==
    LET p == parseFloat(IF Falsy(s) THEN "0" ELSE s)
    IN  IF p.nan \/ p.val = 0 THEN 0 ELSE p.val

\* const parseNum = (s) => parseFloat((s || "0").replace(/,/g, "")) || 0;
parseNum(s) ==
    LET p == parseFloat(StripCommas(IF Falsy(s) THEN "0" ELSE s))
    IN  IF p.nan \/ p.val = 0 THEN 0 ELSE p.val

-----------------------------------------------------------------------------
(* processCSVData: App.jsx lines 55-108 *)

\* scope Non-JP keeps only the rows that name a market
MarketKeep_NonJPNeedsMarket(r, mf) ==
    IF mf = "JP" THEN r.Market = "APAC"
    ELSE IF mf = "Non-JP" THEN r.Market # "APAC" /\ r.Market # undefined
    ELSE TRUE

\* rows.filter(...) of lines 56-60
MarketKeep(r, mf) ==
    IF mf = "JP" THEN r.Market = "APAC"
    ELSE IF mf = "Non-JP" THEN r.Market # "APAC"
    ELSE TRUE

filtered(rs, mf) ==
    IF mf = "All" THEN rs ELSE SelectSeq(rs, LAMBDA r : MarketKeep(r, mf))

\* the body of the first forEach (lines 66-73) for one row
CatStep(catMap, r) ==
    LET cat == r.SpendCategory
    IN  IF Falsy(cat) THEN catMap
        ELSE LET m == IF \E i \in 1..Len(catMap) : catMap[i].name = cat
                      THEN catMap
                      ELSE Append(catMap, [name |-> cat, totalAmount |-> 0,
                                           totalVariance |-> 0, rowCount |-> 0])
                 i == CHOOSE i \in 1..Len(m) : m[i].name = cat
             IN  [m EXCEPT ![i].totalAmount = @ + parseNum(r.Amount),
                           ![i].totalVariance = @ + parseNum(r.VarianceAmount),
                           ![i].rowCount = @ + 1]

\* filtered.forEach of line 66: the rows are visited in order, the first half of
\* the list and then the second half; the map after the first half is complete
\* (its length is taken) before the second half is visited
RECURSIVE CatFold(_, _)
CatFold(catMap, rs) ==
    IF rs = <<>> THEN catMap
    ELSE IF Len(rs) = 1 THEN CatStep(catMap, rs[1])
    ELSE LET half == Len(rs) \div 2
             done == CatFold(catMap, SubSeq(rs, 1, half))
         IN  CASE Len(done) >= 0 -> CatFold(done, SubSeq(rs, half + 1, Len(rs)))

\* CategoryOf with the variance added to the current amount, not subtracted
CategoryOf_PriorAddsVariance(c) ==
    LET prior == c.totalAmount + c.totalVariance
    IN  [name |-> c.name,
         prior |-> MathRound(prior),
         current |-> MathRound(c.totalAmount),
         variance |-> MathRound(c.totalVariance),
         variancePct |-> IF prior # 0 THEN Ratio(c.totalVariance * 100, prior)
                         ELSE Ratio(0, 1),
         rowCount |-> c.rowCount]

\* CategoryOf with variancePct computed from the rounded prior
CategoryOf_RoundedPrior(c) ==
    LET prior == c.totalAmount - c.totalVariance
    IN  [name |-> c.name,
         prior |-> MathRound(prior),
         current |-> MathRound(c.totalAmount),
         variance |-> MathRound(c.totalVariance),
         variancePct |-> IF MathRound(prior) # 0
                         THEN Ratio(c.totalVariance * 100, MathRound(prior) * Scale)
                         ELSE Ratio(0, 1),
         rowCount |-> c.rowCount]

\* the callback of Object.values(catMap).map (lines 75-85)
CategoryOf(c) ==
    LET prior == c.totalAmount - c.totalVariance
    IN  [name |-> c.name,
         prior |-> MathRound(prior),
         current |-> MathRound(c.totalAmount),
         variance |-> MathRound(c.totalVariance),
         variancePct |-> IF prior # 0 THEN Ratio(c.totalVariance * 100, prior)
                         ELSE Ratio(0, 1),
         rowCount |-> c.rowCount]

\* const key = `${cat}||${cc}||${sup}`;
DriverKey(cat, cc, sup) == ToStr(cat) \o "||" \o ToStr(cc) \o "||" \o ToStr(sup)

\* DriverStep without the cost-center half of the guard
DriverStep_NoCostCenterGuard(driverMap, r) ==
    LET cat == r.SpendCategory
        cc  == r.CostCenter
        sup == r.Supplier
        dept == r.Department
    IN  IF Falsy(cat) THEN driverMap
        ELSE LET key == DriverKey(cat, cc, sup)
                 m == IF \E i \in 1..Len(driverMap) : driverMap[i].key = key
                      THEN driverMap
                      ELSE Append(driverMap,
                                  [key |-> key, category |-> cat, costCenter |-> cc,
                                   supplier |-> sup, department |-> dept,
                                   variance |-> 0, rowCount |-> 0, memos |-> <<>>])
                 i == CHOOSE i \in 1..Len(m) : m[i].key = key
                 varAmt == parseNum(r.VarianceAmount)
             IN  [m EXCEPT ![i].variance = @ + varAmt,
                           ![i].rowCount = @ + 1,
                           ![i].memos = IF Falsy(r.LineMemo) THEN @
                                        ELSE Append(@, r.LineMemo)]

\* the body of the second forEach (lines 89-101) for one row
DriverStep(driverMap, r) ==
    LET cat == r.SpendCategory
        cc  == r.CostCenter
        sup == r.Supplier
        dept == r.Department
    IN  IF Falsy(cat) \/ Falsy(cc) THEN driverMap
        ELSE LET key == DriverKey(cat, cc, sup)
                 m == IF \E i \in 1..Len(driverMap) : driverMap[i].key = key
                      THEN driverMap
                      ELSE Append(driverMap,
                                  [key |-> key, category |-> cat, costCenter |-> cc,
                                   supplier |-> sup, department |-> dept,
                                   variance |-> 0, rowCount |-> 0, memos |-> <<>>])
                 i == CHOOSE i \in 1..Len(m) : m[i].key = key
                 varAmt == parseNum(r.VarianceAmount)
             IN  [m EXCEPT ![i].variance = @ + varAmt,
                           ![i].rowCount = @ + 1,
                           ![i].memos = IF Falsy(r.LineMemo) THEN @
                                        ELSE Append(@, r.LineMemo)]

\* filtered.forEach of line 89, visited in order in the same way as CatFold
RECURSIVE DriverFold(_, _)
DriverFold(driverMap, rs) ==
    IF rs = <<>> THEN driverMap
    ELSE IF Len(rs) = 1 THEN DriverStep(driverMap, rs[1])
    ELSE LET half == Len(rs) \div 2
             done == DriverFold(driverMap, SubSeq(rs, 1, half))
         IN  CASE Len(done) >= 0 -> DriverFold(done, SubSeq(rs, half + 1, Len(rs)))

\* .map((d) => ({ ...d, variance: Math.round(d.variance) })) of line 104
DriverOf(d) ==
    [category |-> d.category, costCenter |-> d.costCenter, supplier |-> d.supplier,
     department |-> d.department, variance |-> MathRound(d.variance),
     rowCount |-> d.rowCount, memos |-> d.memos]

\* x goes in front of the elements of its own |variance|
InsertByAbs_BeforeEquals(sorted, x) ==
    LET k == Cardinality({i \in 1..Len(sorted) :
                             Abs(sorted[i].variance) > Abs(x.variance)})
    IN  SubSeq(sorted, 1, k) \o <<x>> \o SubSeq(sorted, k + 1, Len(sorted))

\* one step of a stable sort by descending |variance|: x goes behind every
\* element that does not rank after it
InsertByAbs(sorted, x) ==
    LET k == Cardinality({i \in 1..Len(sorted) :
                             Abs(sorted[i].variance) >= Abs(x.variance)})
    IN  SubSeq(sorted, 1, k) \o <<x>> \o SubSeq(sorted, k + 1, Len(sorted))

\* .sort((a, b) => Math.abs(b.variance) - Math.abs(a.variance)): Array.prototype.sort
\* is stable, so the result is the one stable ordering by descending |variance|
RECURSIVE SortByAbsVariance(_)
SortByAbsVariance(s) ==
    IF s = <<>> THEN <<>>
    ELSE InsertByAbs(SortByAbsVariance(SubSeq(s, 1, Len(s) - 1)), s[Len(s)])

processCSVData(rs, mf) ==
    LET f == filtered(rs, mf)
        catMap == CatFold(<<>>, f)
        driverMap == DriverFold(<<>>, f)
    IN  [categories |-> [i \in 1..Len(catMap) |-> CategoryOf(catMap[i])],
         drivers |-> SortByAbsVariance([i \in 1..Len(driverMap) |-> DriverOf(driverMap[i])]),
         allRows |-> f]

-----------------------------------------------------------------------------
(* Formatters: App.jsx lines 212-217 *)

\* (x).toFixed(0) and (x).toFixed(1) of a non-negative quotient n / d, as the
\* count of units (toFixed(0)) or tenths (toFixed(1)): nearest, ties up
FixedUnits(n, d) == (2 * n + d) \div (2 * d)

\* fmtVar(n) for an integer n (the -0 that Math.round gives for -0.5 <= x < 0
\* is not told apart from 0)
fmtVar(n) ==
    LET prefix == IF n >= 0 THEN "+" ELSE ""
        sign   == IF n < 0 THEN "-" ELSE ""
    IN  IF Abs(n) >= 1000000
        THEN LET tenths == FixedUnits(Abs(n), 100000)
             IN  prefix \o "$" \o sign \o ToString(tenths \div 10) \o "."
                    \o ToString(tenths % 10) \o "M"
        ELSE IF Abs(n) >= 1000
        THEN prefix \o "$" \o sign \o ToString(FixedUnits(Abs(n), 1000)) \o "K"
        ELSE prefix \o "$" \o ToString(n)

-----------------------------------------------------------------------------
(* generatePythonCommentary: App.jsx lines 131-153 *)

\* drivers.filter((d) => d.category === name).sort(...) of lines 112-114 and 135-137
catDriversOf(drvs, name) ==
    SortByAbsVariance(SelectSeq(drvs, LAMBDA d : d.category = name))

\* a variance of 0 counts as favorable
CommentaryItem_ZeroFavorable(cat, top) ==
    LET direction == IF cat.variance >= 0 THEN "increased" ELSE "decreased"
        body == cat.name \o " spend " \o direction \o " " \o fmtVar(cat.variance)
                    \o " vs. prior period, driven primarily by " \o ToStr(top.costCenter)
                    \o " (" \o fmtVar(top.variance) \o " via " \o ToStr(top.supplier) \o ")."
    IN  [title |-> cat.name \o " Variance",
         pythonSentence |-> body,
         aiEnhancement |-> null,
         severity |-> IF cat.variance > 0 THEN "high" ELSE "favorable",
         type |-> "Python Generated",
         categoryName |-> cat.name]

\* the item the map callback returns for a category that has a driver (lines 141-151)
CommentaryItem(cat, top) ==
    LET direction == IF cat.variance >= 0 THEN "increased" ELSE "decreased"
        body == cat.name \o " spend " \o direction \o " " \o fmtVar(cat.variance)
                    \o " vs. prior period, driven primarily by " \o ToStr(top.costCenter)
                    \o " (" \o fmtVar(top.variance) \o " via " \o ToStr(top.supplier) \o ")."
    IN  [title |-> cat.name \o " Variance",
         pythonSentence |-> body,
         aiEnhancement |-> null,
         severity |-> IF cat.variance >= 0 THEN "high" ELSE "favorable",
         type |-> "Python Generated",
         categoryName |-> cat.name]

\* sorted.map(...).filter(Boolean): a category with no driver maps to null and
\* is filtered out, the others map to their item, in the order of sorted
RECURSIVE MapCategories(_, _)
MapCategories(sorted, drvs) ==
    IF sorted = <<>> THEN <<>>
    ELSE LET cat == Head(sorted)
             catDrivers == catDriversOf(drvs, cat.name)
             rest == MapCategories(Tail(sorted), drvs)
         IN  IF catDrivers = <<>> THEN rest
             ELSE <<CommentaryItem(cat, catDrivers[1])>> \o rest

generatePythonCommentary(cats, drvs) ==
    MapCategories(SortByAbsVariance(cats), drvs)

\* Array.prototype.slice(0, n)
SliceTo(s, n) == SubSeq(s, 1, IF n < Len(s) THEN n ELSE Len(s))

\* the first n categories are taken before the categories without driver are skipped
commentaryItemsOf_TakeThenSkip(cats, drvs, n) ==
    MapCategories(SliceTo(SortByAbsVariance(cats), n), drvs)

\* generatePythonCommentary(categories, drivers).slice(0, numComments), line 387
commentaryItemsOf(cats, drvs, n) == SliceTo(generatePythonCommentary(cats, drvs), n)

-----------------------------------------------------------------------------
(* getTop85Memos: App.jsx lines 111-128 *)

\* catDrivers.reduce((s, d) => s + Math.abs(d.variance), 0), line 116
RECURSIVE TotalAbsVar(_)
TotalAbsVar(ds) ==
    IF ds = <<>> THEN 0 ELSE Abs(Head(ds).variance) + TotalAbsVar(Tail(ds))

\* the break is taken only once the threshold is exceeded
ReachedThreshold_Strict(cumulative, totalAbsVar) ==
    20 * cumulative > 17 * totalAbsVar

\* cumulative >= threshold, where threshold = totalAbsVar * 0.85 (lines 117, 122).
\* The variances of drivers are integers (line 104 rounds them); for integers
\* the comparison of the doubles cumulative and totalAbsVar * 0.85 agrees with
\* the comparison of 20 * cumulative and 17 * totalAbsVar.
ReachedThreshold(cumulative, totalAbsVar) ==
    20 * cumulative >= 17 * totalAbsVar

\* every memo of the driver
MemosOfDriver_Uncapped(d) == d.memos

\* d.memos.slice(0, 5), line 124
MemosOfDriver(d) == SliceTo(d.memos, 5)

\* the for loop of lines 121-125, from the drivers ds on: the memos pushed
RECURSIVE PushMemos(_, _, _)
PushMemos(ds, totalAbsVar, cumulative) ==
    IF ds = <<>> THEN <<>>
    ELSE IF ReachedThreshold(cumulative, totalAbsVar) THEN <<>>
    ELSE MemosOfDriver(Head(ds))
            \o PushMemos(Tail(ds), totalAbsVar, cumulative + Abs(Head(ds).variance))

\* the top driver of the category contributes even when the loop pushes nothing
getTop85Memos_TopDriverAlways(drvs, categoryName) ==
    LET catDrivers == catDriversOf(drvs, categoryName)
        pushed == PushMemos(catDrivers, TotalAbsVar(catDrivers), 0)
    IN  SliceTo(IF pushed = <<>> /\ catDrivers # <<>>
                THEN MemosOfDriver(catDrivers[1]) ELSE pushed, 30)

getTop85Memos(drvs, categoryName) ==
    LET catDrivers == catDriversOf(drvs, categoryName)
    IN  SliceTo(PushMemos(catDrivers, TotalAbsVar(catDrivers), 0), 30)

-----------------------------------------------------------------------------
(* enhanceWithAI: App.jsx lines 156-203 *)

\* A Response is its status and its body.  A body is either not JSON
\* (json = FALSE) or parses to data: kind "null" is the JSON value null, kind
\* "object" any other value; contentKind tells what data.content is: "absent"
\* (undefined or null), "array" (then content lists its elements, each with
\* its text property or undefined) or "other" (any other value).
Body(json, kind, contentKind, content) ==
    [json |-> json, kind |-> kind, contentKind |-> contentKind, content |-> content]

\* no Response is being read
NoResponse == [status |-> 0, body |-> Body(FALSE, "none", "absent", <<>>)]

\* String.prototype.trim
IsSpace(c) == c \in {" ", "\n", "\t", "\r"}

RECURSIVE TrimStart(_)
TrimStart(s) == IF s # "" /\ IsSpace(Head(s)) THEN TrimStart(Tail(s)) ELSE s

RECURSIVE TrimEnd(_)
TrimEnd(s) ==
    IF s # "" /\ IsSpace(SubSeq(s, Len(s), Len(s)))
    THEN TrimEnd(SubSeq(s, 1, Len(s) - 1)) ELSE s

trim(s) == TrimEnd(TrimStart(s))

\* memos.map((m, idx) => `${idx + 1}. ${m}`).join("\n"), line 164
RECURSIVE MemoLines(_, _)
MemoLines(ms, idx) ==
    IF ms = <<>> THEN ""
    ELSE ToString(idx + 1) \o ". " \o Head(ms)
            \o (IF Len(ms) > 1 THEN "\n" \o MemoLines(Tail(ms), idx + 1) ELSE "")

memoTextOf(ms) == MemoLines(ms, 0)

\* the template literal of lines 177-186
PromptHead ==
    "You are a senior finance analyst writing executive variance commentary. Below is a Python-generated factual sentence about a spend variance, followed by Line Memos from the top 85% of variance-driving rows for this category.\n\nPYTHON SENTENCE (DO NOT MODIFY THIS):\n\""

PromptMid == "\"\n\nLINE MEMOS FROM TOP VARIANCE ROWS:\n"

PromptTail ==
    "\n\nYOUR TASK:\nWrite 1-2 additional sentences that provide executive-level context based ONLY on patterns you see in the Line Memos. Focus on: what types of spend are driving the variance (renewals, consulting engagements, cloud costs, travel patterns, etc.), which departments appear most, and any notable patterns (reclassifications, intercompany charges, scope changes). Be specific but concise. Do NOT repeat the Python sentence. Do NOT include dollar amounts. Write in a professional finance tone."

\* the request of lines 167-189
RequestOf(item, ms) ==
    [url |-> "https://api.anthropic.com/v1/messages",
     method |-> "POST",
     headers |-> <<<<"Content-Type", "application/json">>>>,
     model |-> "claude-sonnet-4-5-20250514",
     max_tokens |-> 1000,
     role |-> "user",
     content |-> PromptHead \o item.pythonSentence \o PromptMid
                    \o memoTextOf(ms) \o PromptTail]

\* content.map((c) => c.text || "").join("")
RECURSIVE JoinTexts(_)
JoinTexts(content) ==
    IF content = <<>> THEN ""
    ELSE (IF Falsy(Head(content).text) THEN "" ELSE Head(content).text)
            \o JoinTexts(Tail(content))

\* data.content?.map((c) => c.text || "").join("") || "", line 192.  The
\* expression throws a TypeError when data is null (null has no property
\* content) and when content is neither nullish nor an array (no map method).
aiTextOf(data) ==
    [threw |-> data.kind = "null" \/ data.contentKind = "other",
     text |-> IF data.contentKind = "array" THEN JoinTexts(data.content) ELSE ""]

\* the text replaces the factual sentence
EnhancedItem_RewritesSentence(item, aiText) ==
    [item EXCEPT !.pythonSentence = trim(aiText), !.type = "Python + AI Generated"]

\* { ...enhanced[i], aiEnhancement: aiText.trim(), type: "Python + AI Generated" }, line 194
EnhancedItem(item, aiText) ==
    [item EXCEPT !.aiEnhancement = trim(aiText), !.type = "Python + AI Generated"]

\* the item is tried again after a failure
Catch_Retry(idx) == [completion |-> "normal", itemIndex |-> idx]

\* the error is thrown again
Catch_Rethrow(idx) == [completion |-> "throw", itemIndex |-> idx]

\* the catch block of lines 196-199 logs the error and completes normally, so
\* the for statement goes on with i++
Catch(idx) == [completion |-> "normal", itemIndex |-> idx + 1]

-----------------------------------------------------------------------------
(* The run: runAnalysis steps 2 and 3, App.jsx lines 378-387 *)

\* the choices of the "Number of Comments" buttons, line 562
NumCommentsChoices == {1, 3, 4}

MaxRows == 3


Row(mk, cat, cc, sup, amt, var, memo) ==
    [Market |-> mk, SpendCategory |-> cat, CostCenter |-> cc, Supplier |-> sup,
     Department |-> "Ops", Amount |-> amt, VarianceAmount |-> var, LineMemo |-> memo]

\* every sequence of at most n elements of S
SeqsUpTo(S, n) == UNION {[1..k -> S] : k \in 0..n}

\* the choices of the market scope buttons, line 546
MarketChoices == {"all", "nonjp", "jp"}

\* const marketFilter = market === "jp" ? "JP" : market === "nonjp" ? "Non-JP" : "All";
MarketFilterOf(m) == IF m = "jp" THEN "JP" ELSE IF m = "nonjp" THEN "Non-JP" ELSE "All"

\* the value of results while there is no bundle (useState(null), setResults(null))
NullResults == [isNull |-> TRUE]

\* the locals of a run before anything has been computed
NoData ==
    /\ categories = <<>>
    /\ drivers = <<>>
    /\ commentaryItems = <<>>
    /\ memoCategory = ""
    /\ memos = <<>>
    /\ enhanced = <<>>
    /\ itemIndex = 0
    /\ response = NoResponse
    /\ requests = <<>>
    /\ pending = 0
    /\ outcomes = <<>>

\* a run has parsed its file into rows and waits to process them (line 376)
InitRun ==
    /\ pc = "start"
    /\ analysisType = "finance"
    /\ files = <<rows>>
    /\ market \in {m \in MarketChoices : MarketFilterOf(m) = marketFilter}
    /\ analyzing = TRUE
    /\ progress = 25
    /\ results = NullResults
    /\ NoData

InitRows(RowSet, Filters, Counts, Modes) ==
    /\ \A r \in RowSet : ExactCell(r.Amount) /\ ExactCell(r.VarianceAmount)
    /\ rows \in SeqsUpTo(RowSet, MaxRows)
    /\ marketFilter \in Filters
    /\ numComments \in Counts
    /\ commentary \in Modes
    /\ InitRun

\* const { categories, drivers } = processCSVData(rows, marketFilter);
ProcessCSV ==
    /\ pc = "start"
    /\ LET res == processCSVData(rows, marketFilter)
       IN  /\ categories' = res.categories
           /\ drivers' = res.drivers
    /\ pc' = "processed"
    /\ progress' = 50
    /\ UNCHANGED <<uiVars, inputVars, commentaryItems, memoVars, aiVars>>

\* let commentaryItems = generatePythonCommentary(categories, drivers).slice(0, numComments);
GenCommentary ==
    /\ pc = "processed"
    /\ commentaryItems' = commentaryItemsOf(categories, drivers, numComments)
    /\ pc' = "commented"
    /\ progress' = 70
    /\ UNCHANGED <<uiVars, inputVars, csvVars, memoVars, aiVars>>

NextCSV == ProcessCSV \/ GenCommentary

-----------------------------------------------------------------------------
(* Row universes and specifications of the aggregation pipeline *)

\* rows that vary the numeric cells: thousands separators, fractions, signs,
\* non-numeric and absent cells, two categories, a row without category
RowsNum ==
    { Row("APAC", "Rent", "CC-535", "Amazon", "1,238", "238", "Q2 renewal"),
      Row("APAC", "Rent", "CC-535", "Amazon", "1.25", "1", "true-up"),
      Row("APAC", "Rent", undefined, "Amazon", "0.5", "0.25", "accrual"),
      Row("APAC", "Travel", "CC-1", "Delta", "1", "1", "flights"),
      Row("EMEA", "Travel", "CC-1", "Delta", "-1.5", "-0.5", "refund"),
      Row("APAC", "Travel", "CC-2", "Hertz", "abc", "", ""),
      Row("APAC", "Rent", "CC-535", "Amazon", undefined, "12abc", undefined),
      Row("APAC", "", "CC-1", "Delta", "7", "7", "unassigned") }

InitNum == InitRows(RowsNum, {"All", "JP"}, {3}, {"python"})

SpecNum == InitNum /\ [][NextCSV]_vars

\* the sum of the elements of a sequence of integers
RECURSIVE SumSeq(_)
SumSeq(q) == IF q = <<>> THEN 0 ELSE Head(q) + SumSeq(Tail(q))

\* the rows of the filtered input whose Spend Category is name
RowsOfCategory(name) ==
    SelectSeq(filtered(rows, marketFilter), LAMBDA r : r.SpendCategory = name)

AmountSum(name) ==
    LET q == RowsOfCategory(name) IN SumSeq([j \in 1..Len(q) |-> parseNum(q[j].Amount)])

VarianceSum(name) ==
    LET q == RowsOfCategory(name)
    IN  SumSeq([j \in 1..Len(q) |-> parseNum(q[j].VarianceAmount)])

\* the distinct non-empty Spend Category values of the filtered rows
CategoryNames ==
    LET f == filtered(rows, marketFilter)
    IN  {f[j].SpendCategory : j \in {k \in 1..Len(f) : ~Falsy(f[k].SpendCategory)}}

C8_CategoryAggregation ==
    pc # "start" =>
        /\ {categories[i].name : i \in 1..Len(categories)} = CategoryNames
        /\ Len(categories) = Cardinality(CategoryNames)
        /\ \A i \in 1..Len(categories) :
              LET c == categories[i]
              IN  /\ c.current = MathRound(AmountSum(c.name))
                  /\ c.variance = MathRound(VarianceSum(c.name))
                  /\ c.prior = MathRound(AmountSum(c.name) - VarianceSum(c.name))
                  /\ c.rowCount = Len(RowsOfCategory(c.name))
        /\ rows = <<Row("APAC", "Rent", "CC-535", "Amazon", "1,238", "238", "Q2 renewal")>>
              => /\ Len(categories) = 1
                 /\ categories[1].name = "Rent"
                 /\ categories[1].prior = 1000
                 /\ categories[1].current = 1238
                 /\ categories[1].variance = 238
                 /\ categories[1].variancePct.num * 10 = 238 * categories[1].variancePct.den
                 /\ categories[1].rowCount = 1

\* the single-row scenario has been aggregated
C8_Witness ==
    /\ pc = "processed"
    /\ rows = <<Row("APAC", "Rent", "CC-535", "Amazon", "1,238", "238", "Q2 renewal")>>
    /\ Len(categories) = 1
    /\ categories[1].current = 1238

-----------------------------------------------------------------------------
(* Grouping keys *)

\* rows that vary the grouping keys: a repeated triple, an absent supplier and
\* a supplier named "undefined", keys that contain "||", absent and empty
\* cost centers and categories; every row has its own Line Memo
RowsKeys ==
    { Row("APAC", "A", "C", "S", "10", "1", "m1"),
      Row("APAC", "A", "C", "S", "10", "2.5", "m2"),
      Row("APAC", "A", "C", undefined, "10", "1", "m3"),
      Row("APAC", "A", "C", "undefined", "10", "2", "m4"),
      Row("APAC", "A||B", "C", "S", "10", "1", "m5"),
      Row("APAC", "A", "B||C", "S", "10", "2", "m6"),
      Row("APAC", "A", undefined, "S", "10", "4", "m7"),
      Row("APAC", "A", "", "S", "10", "4", "m8"),
      Row("APAC", undefined, "C", "S", "10", "8", "m9"),
      Row("APAC", "", "C", "S", "10", "8", "m10") }

InitKeys == InitRows(RowsKeys, {"All"}, {3}, {"python"})

SpecKeys == InitKeys /\ [][NextCSV]_vars

HasCategory(r) == ~Falsy(r.SpendCategory)

HasDriverKeys(r) == ~Falsy(r.SpendCategory) /\ ~Falsy(r.CostCenter)

\* all the memos held by the drivers
DriverMemos(drvs) == UNION {{drvs[i].memos[k] : k \in 1..Len(drvs[i].memos)} : i \in 1..Len(drvs)}

\* C9: a row with a Spend Category but an absent or empty Cost Center counts
\* in its category's totals and rowCount and contributes to no driver; a row
\* with an absent or empty Spend Category contributes to neither categories
\* nor drivers.
C9_MissingKeysDroppedPerAggregator ==
    pc # "start" =>
        LET f == filtered(rows, marketFilter)
            keyed == SelectSeq(rows, HasDriverKeys)
            named == SelectSeq(rows, HasCategory)
        IN  /\ \A i \in 1..Len(categories) :
                  /\ categories[i].rowCount = Len(RowsOfCategory(categories[i].name))
                  /\ categories[i].current = MathRound(AmountSum(categories[i].name))
                  /\ categories[i].variance = MathRound(VarianceSum(categories[i].name))
            /\ SumSeq([i \in 1..Len(categories) |-> categories[i].rowCount]) = Len(named)
            /\ SumSeq([i \in 1..Len(drivers) |-> drivers[i].rowCount]) = Len(keyed)
            /\ \A j \in 1..Len(f) :
                  ~HasDriverKeys(f[j]) => f[j].LineMemo \notin DriverMemos(drivers)
            /\ drivers = processCSVData(keyed, marketFilter).drivers
            /\ categories = processCSVData(named, marketFilter).categories
            /\ \A i \in 1..Len(categories) : ~Falsy(categories[i].name)
            /\ \A i \in 1..Len(drivers) :
                  ~Falsy(drivers[i].category) /\ ~Falsy(drivers[i].costCenter)

\* a row without cost center, counted in its category, next to a row without
\* category and a row that makes a driver
C9_Witness ==
    /\ pc = "processed"
    /\ \E i, j, k \in 1..Len(rows) :
          /\ HasCategory(rows[i]) /\ Falsy(rows[i].CostCenter)
          /\ ~HasCategory(rows[j])
          /\ HasDriverKeys(rows[k])
    /\ Len(drivers) = 1
    /\ Len(categories) = 1
    /\ categories[1].rowCount = 2

\* the sequence s rearranged by the permutation p of its indices
Permuted(s, p) == [i \in 1..Len(s) |-> s[p[i]]]

\* the (category, costCenter, supplier) triples of the rows that have both keys
Triples(rs) ==
    {<<rs[j].SpendCategory, rs[j].CostCenter, rs[j].Supplier>> :
        j \in {k \in 1..Len(rs) : HasDriverKeys(rs[k])}}

TripleOf(d) == <<d.category, d.costCenter, d.supplier>>

\* C10: for every permutation of the input rows there is exactly one driver
\* entry per (category, costCenter, supplier) triple of the rows that have a
\* category and a cost center, and the variance and rowCount of each triple's
\* entry are the same for every permutation.
C10_DriverMergingOrderIndependent ==
    pc # "start" =>
        \A p \in Permutations(1..Len(rows)) :
            LET d == processCSVData(Permuted(rows, p), marketFilter).drivers
                T == Triples(filtered(rows, marketFilter))
            IN  /\ Len(d) = Cardinality(T)
                /\ \A t \in T : Cardinality({i \in 1..Len(d) : TripleOf(d[i]) = t}) = 1
                /\ \A t \in T : \A i \in 1..Len(d) : \A k \in 1..Len(drivers) :
                      TripleOf(d[i]) = t /\ TripleOf(drivers[k]) = t =>
                          /\ d[i].variance = drivers[k].variance
                          /\ d[i].rowCount = drivers[k].rowCount

-----------------------------------------------------------------------------
(* Commentary selection *)

\* rows of four categories, with and without a cost center, of distinct and
\* of equal |variance|
RowsSel ==
    { Row("APAC", "A", undefined, "S", "20", "9", "a1"),
      Row("APAC", "A", "C1", "S", "20", "1", "a2"),
      Row("APAC", "B", "C1", "S", "20", "5", "b1"),
      Row("APAC", "B", "", "S", "20", "-7", "b2"),
      Row("APAC", "C", "C2", "T", "20", "3", "c1"),
      Row("APAC", "D", "C3", "T", "20", "-5", "d1") }

InitSel == InitRows(RowsSel, {"All"}, NumCommentsChoices, {"python"})

SpecSel == InitSel /\ [][NextCSV]_vars

HasDriver(name) == \E k \in 1..Len(drivers) : drivers[k].category = name

\* the categories ranked before categories[i] in descending |variance|, ties
\* kept in the order of categories
RankedBefore(i) ==
    {j \in 1..Len(categories) :
        \/ Abs(categories[j].variance) > Abs(categories[i].variance)
        \/ Abs(categories[j].variance) = Abs(categories[i].variance) /\ j < i}

\* C6 as stated: only the numComments categories of largest |variance| are
\* candidates, and a candidate without driver is not replaced.
C6_TakeNThenSkip ==
    pc = "commented" =>
        {commentaryItems[k].categoryName : k \in 1..Len(commentaryItems)}
            = {categories[i].name : i \in {j \in 1..Len(categories) :
                    Cardinality(RankedBefore(j)) < numComments /\ HasDriver(categories[j].name)}}

\* C6 amended: selection is skip-then-take-N: the categories without driver
\* are dropped first and the items are those of the first numComments
\* remaining categories in descending |variance|, so the list has numComments
\* items whenever at least numComments categories have a driver.
C6_SkipThenTakeN ==
    pc = "commented" =>
        LET withDriver == {i \in 1..Len(categories) : HasDriver(categories[i].name)}
            chosen == {i \in withDriver :
                          Cardinality(RankedBefore(i) \cap withDriver) < numComments}
        IN  /\ Len(commentaryItems) = Cardinality(chosen)
            /\ Cardinality(chosen) =
                  (IF Cardinality(withDriver) < numComments
                   THEN Cardinality(withDriver) ELSE numComments)
            /\ \A i \in chosen :
                  commentaryItems[Cardinality(RankedBefore(i) \cap withDriver) + 1].categoryName
                      = categories[i].name

\* a category without driver ranks among the first numComments and a
\* lower-ranked category fills the list
C6_Witness ==
    /\ pc = "commented"
    /\ Len(commentaryItems) = numComments
    /\ \E i \in 1..Len(categories) :
          /\ ~HasDriver(categories[i].name)
          /\ Cardinality(RankedBefore(i)) < numComments

-----------------------------------------------------------------------------
(* getTop85Memos on driver lists of one category *)

MaxDrivers == 8

MaxFreeDrivers == 3

\* the variance of a driver, in whole currency units
VarianceChoices == {0, 3, -14}

\* the number of rows of a driver that carry a memo
MemoCountChoices == {0, 1, 6}

\* the rows of driver d of category "Media": its first row carries the variance
\* v, and k of its rows carry a memo, each memo different from every other one
MemoRows(d, v, k) ==
    LET cc == "CC-" \o ToString(d)
    IN  IF k = 0
        THEN <<Row("JP", "Media", cc, "Acme", "0", ToString(v), "")>>
        ELSE [j \in 1..k |->
                Row("JP", "Media", cc, "Acme", "0",
                    IF j = 1 THEN ToString(v) ELSE "0",
                    "memo " \o ToString(d) \o "." \o ToString(j))]

RECURSIVE MemoInput(_, _, _)
MemoInput(n, v, k) ==
    IF n = 0
    THEN <<Row("JP", "Other", "CC-0", "Acme", "0", "40", "memo of another category")>>
    ELSE MemoInput(n - 1, v, k) \o MemoRows(n, v[n], k[n])

\* up to MaxFreeDrivers drivers with any variances and memo counts, and up to
\* MaxDrivers drivers with equal or graded variances and equal memo counts
MemoProfiles ==
    UNION {[n : {n}, v : [1..n -> VarianceChoices], k : [1..n -> MemoCountChoices]]
            : n \in 0..MaxFreeDrivers}
    \cup
    UNION {[n : {n},
            v : {[d \in 1..n |-> c] : c \in {0, 3}}
                    \cup {[d \in 1..n |-> IF d % 2 = 1 THEN d ELSE 0 - d]},
            k : {[d \in 1..n |-> m] : m \in {1, 6}}]
            : n \in (MaxFreeDrivers + 1)..MaxDrivers}

InitMemo ==
    /\ rows \in {MemoInput(p.n, p.v, p.k) : p \in MemoProfiles}
    /\ marketFilter = "All"
    /\ numComments = 3
    /\ commentary = "ai"
    /\ InitRun

\* const memos = getTop85Memos(drivers, item.categoryName), line 161, for the
\* name of a category with drivers, of another one, and of one without drivers
SelectMemos ==
    /\ pc = "processed"
    /\ \E name \in {"Media", "Other", "None"} :
            /\ memoCategory' = name
            /\ memos' = getTop85Memos(drivers, name)
    /\ pc' = "selected"
    /\ UNCHANGED <<uiVars, progress, inputVars, csvVars, commentaryItems, aiVars>>

NextMemo == ProcessCSV \/ SelectMemos

SpecMemo == InitMemo /\ [][NextMemo]_vars

\* the drivers of the category asked for, in the rank order of drivers
Ranked == SelectSeq(drivers, LAMBDA d : d.category = memoCategory)

\* cumulative |variance| of the first n drivers of ds
CumAbs(ds, n) == SumSeq([j \in 1..n |-> Abs(ds[j].variance)])

\* the first n drivers of ds carry at least 85% of the total |variance| of ds
Covers(ds, n) == 20 * CumAbs(ds, n) >= 17 * CumAbs(ds, Len(ds))

ShortestPrefix(ds) ==
    CHOOSE n \in 0..Len(ds) : Covers(ds, n) /\ \A m \in 0..(n - 1) : ~Covers(ds, m)

\* the first (up to 5) memos of each of the first n drivers of ds, in rank order
RECURSIVE FirstMemos(_, _)
FirstMemos(ds, n) ==
    IF n = 0 THEN <<>>
    ELSE FirstMemos(ds, n - 1)
            \o SubSeq(ds[n].memos, 1, IF Len(ds[n].memos) < 5 THEN Len(ds[n].memos) ELSE 5)

\* the memos of the result that come from driver d
FromDriver(d) ==
    SelectSeq(memos, LAMBDA m : \E j \in 1..Len(d.memos) : d.memos[j] = m)

\* C3, as stated: when the category has a driver and every driver of it has
\* variance 0, the result is the first (up to 5) memos of the top-ranked driver.
C3_DegenerateTakesTopDriver ==
    (pc = "selected" /\ Ranked # <<>> /\ CumAbs(Ranked, Len(Ranked)) = 0)
        => memos = FirstMemos(Ranked, 1)

\* C3, amended: when the category has a driver and every driver of it has
\* variance 0, no driver is visited and the result is empty, whatever memos
\* the drivers have.
C3_DegenerateSelectsNothing ==
    (pc = "selected" /\ Ranked # <<>> /\ CumAbs(Ranked, Len(Ranked)) = 0)
        => memos = <<>>

C3_Witness ==
    /\ pc = "selected"
    /\ Len(Ranked) >= 2
    /\ CumAbs(Ranked, Len(Ranked)) = 0
    /\ Ranked[1].memos # <<>>
    /\ memos = <<>>

\* C4: for a category of total absolute variance T > 0, the drivers are ranked
\* by descending |variance|, the memos taken are those of exactly the shortest
\* prefix of that ranking whose cumulative |variance| is at least 0.85 * T (the
\* result being the first 30 of them), and no driver after the prefix
\* contributes a memo.
C4_ShortestPrefixReaching85 ==
    (pc = "selected" /\ CumAbs(Ranked, Len(Ranked)) > 0) =>
        LET n == ShortestPrefix(Ranked)
        IN  /\ \A j \in 1..(Len(Ranked) - 1) :
                    Abs(Ranked[j].variance) >= Abs(Ranked[j + 1].variance)
            /\ n >= 1
            /\ memos = SliceTo(FirstMemos(Ranked, n), 30)
            /\ Len(FirstMemos(Ranked, n)) <= 30
                    => FromDriver(Ranked[n]) = FirstMemos(<<Ranked[n]>>, 1)
            /\ \A j \in (n + 1)..Len(Ranked) : FromDriver(Ranked[j]) = <<>>

\* the second of three drivers brings the cumulative sum to exactly 85%
C4_Witness ==
    /\ pc = "selected"
    /\ Len(Ranked) = 3
    /\ ShortestPrefix(Ranked) = 2
    /\ 20 * CumAbs(Ranked, 2) = 17 * CumAbs(Ranked, 3)
    /\ \A j \in 1..3 : Ranked[j].memos # <<>>
    /\ memos = FirstMemos(Ranked, 2)

\* C5: the result has at most 30 memos, at most 5 of them from any single
\* driver, and the memos that come from a driver are that driver's first
\* memos, in insertion order.
C5_MemoCaps ==
    pc = "selected" =>
        /\ Len(memos) <= 30
        /\ \A j \in 1..Len(drivers) :
                LET mine == FromDriver(drivers[j])
                IN  /\ Len(mine) <= 5
                    /\ mine = SubSeq(drivers[j].memos, 1, Len(mine))
        /\ \A j \in 1..Len(memos) :
                \E d \in 1..Len(Ranked) :
                    \E m \in 1..Len(Ranked[d].memos) : Ranked[d].memos[m] = memos[j]

\* both caps cut: more than 30 memos were pushed, from drivers with 6 memos each
C5_Witness ==
    /\ pc = "selected"
    /\ Len(memos) = 30
    /\ Len(FirstMemos(Ranked, ShortestPrefix(Ranked))) > 30
    /\ \E j \in 1..Len(Ranked) :
            Len(Ranked[j].memos) > 5 /\ Len(FromDriver(Ranked[j])) = 5

-----------------------------------------------------------------------------
(* The run with AI enhancement: runAnalysis step 4 (lines 392-395) and the   *)
(* loop of enhanceWithAI (lines 156-203)                                     *)

\* the item the loop is at: enhanced[i]
CurrentItem == enhanced[itemIndex + 1]

\* if (commentary === "ai") enhanceWithAI(commentaryItems, drivers) is called:
\* const enhanced = [...commentary]; let i = 0
EnhanceStart ==
    /\ pc = "commented"
    /\ commentary = "ai"
    /\ enhanced' = commentaryItems
    /\ itemIndex' = 0
    /\ pc' = "loop"
    /\ progress' = 75
    /\ UNCHANGED <<uiVars, inputVars, csvVars, commentaryItems, memoVars, response,
                   requests, pending, outcomes>>

\* i < enhanced.length fails: return enhanced, which runAnalysis assigns to
\* commentaryItems (line 395)
LoopExit ==
    /\ pc = "loop"
    /\ itemIndex >= Len(enhanced)
    /\ commentaryItems' = enhanced
    /\ pc' = "enhanced"
    /\ progress' = 95
    /\ UNCHANGED <<uiVars, inputVars, csvVars, memoVars, aiVars>>

\* lines 160-162: if (memos.length === 0) continue
LoopSkip ==
    /\ pc = "loop"
    /\ itemIndex < Len(enhanced)
    /\ LET ms == getTop85Memos(drivers, CurrentItem.categoryName)
       IN  /\ ms = <<>>
           /\ memos' = ms
    /\ memoCategory' = CurrentItem.categoryName
    /\ itemIndex' = itemIndex + 1
    /\ outcomes' = Append(outcomes, [kind |-> "skipped", response |-> NoResponse])
    /\ UNCHANGED <<uiVars, progress, inputVars, csvVars, commentaryItems, pc, enhanced, response,
                   requests, pending>>

\* fetch is called and not awaited: the loop goes on with the next item
LoopFetch_NotAwaited ==
    /\ pc = "loop"
    /\ itemIndex < Len(enhanced)
    /\ LET ms == getTop85Memos(drivers, CurrentItem.categoryName)
       IN  /\ ms # <<>>
           /\ memos' = ms
           /\ requests' = Append(requests, RequestOf(CurrentItem, ms))
    /\ memoCategory' = CurrentItem.categoryName
    /\ pending' = pending + 1
    /\ itemIndex' = itemIndex + 1
    /\ outcomes' = Append(outcomes, [kind |-> "skipped", response |-> NoResponse])
    /\ UNCHANGED <<uiVars, progress, inputVars, csvVars, commentaryItems, pc, enhanced, response>>

\* lines 160-189: the memo selection is not empty, fetch is called and awaited
LoopFetch ==
    /\ pc = "loop"
    /\ itemIndex < Len(enhanced)
    /\ LET ms == getTop85Memos(drivers, CurrentItem.categoryName)
       IN  /\ ms # <<>>
           /\ memos' = ms
           /\ requests' = Append(requests, RequestOf(CurrentItem, ms))
    /\ memoCategory' = CurrentItem.categoryName
    /\ pending' = pending + 1
    /\ pc' = "fetch"
    /\ UNCHANGED <<uiVars, progress, inputVars, csvVars, commentaryItems, enhanced, itemIndex,
                   response, outcomes>>

\* control after an exception in the try block of item i
AfterThrow ==
    LET c == Catch(itemIndex)
    IN  /\ itemIndex' = c.itemIndex
        /\ pc' = IF c.completion = "normal" THEN "loop" ELSE "rejected"

\* the promise of fetch rejects (network failure): the catch block runs
FetchReject ==
    /\ pc = "fetch"
    /\ pending' = pending - 1
    /\ outcomes' = Append(outcomes, [kind |-> "rejected", response |-> NoResponse])
    /\ AfterThrow
    /\ UNCHANGED <<uiVars, progress, inputVars, csvVars, commentaryItems, memoVars, enhanced,
                   response, requests>>

\* the responses the service may give
TextBody == Body(TRUE, "object", "array", <<[text |-> "Renewals drive the variance."]>>)

MixedBody ==
    Body(TRUE, "object", "array",
         <<[text |-> " Cloud costs"], [text |-> undefined], [text |-> " rose. \n"]>>)

BlankBody == Body(TRUE, "object", "array", <<[text |-> "  "]>>)

EmptyBody == Body(TRUE, "object", "array", <<>>)

NullBody == Body(TRUE, "null", "absent", <<>>)

OtherContentBody == Body(TRUE, "object", "other", <<>>)

ErrorBody == Body(TRUE, "object", "absent", <<>>)

NotJsonBody == Body(FALSE, "none", "absent", <<>>)

Responses ==
    {[status |-> 200, body |-> b] :
        b \in {TextBody, MixedBody, BlankBody, EmptyBody, NullBody,
               OtherContentBody, NotJsonBody}}
    \cup {[status |-> 529, body |-> ErrorBody],
          [status |-> 500, body |-> NotJsonBody],
          [status |-> 429, body |-> TextBody]}

\* the promise of fetch resolves with a Response; response.json() is awaited
FetchResolve ==
    /\ pc = "fetch"
    /\ \E r \in Responses : response' = r
    /\ pending' = pending - 1
    /\ pc' = "json"
    /\ UNCHANGED <<uiVars, progress, inputVars, csvVars, commentaryItems, memoVars, enhanced,
                   itemIndex, requests, outcomes>>

\* lines 191-199: response.json() settles.  It rejects when the body is not
\* JSON; otherwise aiText is computed and, when it is not empty, enhanced[i]
\* is replaced.
JsonSettle ==
    /\ pc = "json"
    /\ outcomes' = Append(outcomes, [kind |-> "settled", response |-> response])
    /\ response' = NoResponse
    /\ IF ~response.body.json \/ aiTextOf(response.body).threw
       THEN /\ AfterThrow
            /\ UNCHANGED enhanced
       ELSE LET aiText == aiTextOf(response.body).text
            IN  /\ enhanced' = IF aiText # ""
                               THEN [enhanced EXCEPT ![itemIndex + 1] = EnhancedItem(@, aiText)]
                               ELSE enhanced
                /\ itemIndex' = itemIndex + 1
                /\ pc' = "loop"
    /\ UNCHANGED <<uiVars, progress, inputVars, csvVars, commentaryItems, memoVars, requests, pending>>

NextAI ==
    \/ ProcessCSV
    \/ GenCommentary
    \/ EnhanceStart
    \/ LoopExit
    \/ LoopSkip
    \/ LoopFetch
    \/ FetchReject
    \/ FetchResolve
    \/ JsonSettle

\* two categories whose selection has a memo (Cloud, Travel), one whose
\* drivers all have variance 0 (Rent) and one whose driver has no memo (Fees)
RowsEnh ==
    { Row("JP", "Cloud", "CC-1", "AWS", "10", "5", "reserved instance renewal"),
      Row("JP", "Cloud", "CC-2", "GCP", "4", "1", ""),
      Row("JP", "Travel", "CC-3", "Delta", "2", "-3", "sales kickoff"),
      Row("JP", "Rent", "CC-4", "WeWork", "6", "0", "lease"),
      Row("JP", "Fees", "CC-5", "Bank", "1", "2", "") }

InitEnh == InitRows(RowsEnh, {"All"}, {3}, {"ai"})

SpecEnh == InitEnh /\ [][NextAI]_vars

\* the list handed to enhanceWithAI
InputItems == commentaryItemsOf(categories, drivers, numComments)

InEnhance == pc \in {"loop", "fetch", "json", "enhanced"}

\* the call for an item failed: fetch rejected, the body was not JSON, or the
\* payload had no usable content (no content array, or no text in it)
Failed(o) ==
    \/ o.kind = "rejected"
    \/ /\ o.kind = "settled"
       /\ \/ ~o.response.body.json
          \/ o.response.body.kind = "null"
          \/ o.response.body.contentKind # "array"
          \/ \A k \in 1..Len(o.response.body.content) :
                o.response.body.content[k].text \in {undefined, ""}

\* what an item becomes, given what happened to its own call only
ResultOf(item, o) ==
    IF o.kind = "settled" /\ ~Failed(o)
    THEN [item EXCEPT !.aiEnhancement = trim(JoinTexts(o.response.body.content)),
                      !.type = "Python + AI Generated"]
    ELSE item

\* C1: enhanceWithAI never rejects; an item whose call failed is left as the
\* factual-only input item (aiEnhancement null, type "Python Generated"); the
\* result of every item is determined by the outcome of its own call alone;
\* items not yet visited are untouched; and when the loop ends every item has
\* been visited.
C1_FailureIsolation ==
    /\ pc # "rejected"
    /\ InEnhance =>
        LET input == InputItems
        IN  /\ Len(outcomes) = itemIndex
            /\ Len(enhanced) = Len(input)
            /\ \A j \in 1..Len(enhanced) :
                IF j <= Len(outcomes)
                THEN /\ enhanced[j] = ResultOf(input[j], outcomes[j])
                     /\ Failed(outcomes[j]) =>
                            /\ enhanced[j] = input[j]
                            /\ enhanced[j].aiEnhancement = null
                            /\ enhanced[j].type = "Python Generated"
                ELSE enhanced[j] = input[j]
            /\ pc = "enhanced" =>
                /\ Len(outcomes) = Len(input)
                /\ commentaryItems = enhanced

\* the call of the first item failed after a response arrived, and the second
\* item was enhanced all the same
C1_Witness ==
    /\ pc = "enhanced"
    /\ Len(outcomes) >= 2
    /\ outcomes[1].kind = "settled"
    /\ Failed(outcomes[1])
    /\ commentaryItems[1].type = "Python Generated"
    /\ outcomes[2].kind = "settled"
    /\ commentaryItems[2].type = "Python + AI Generated"

\* C2: during and after enhanceWithAI the list has the length and order of the
\* input list, and each item differs from the input item at most in
\* aiEnhancement and type: pythonSentence, title, severity and categoryName
\* are those of the input item.
C2_FactualSentenceKept ==
    InEnhance =>
        LET input == InputItems
        IN  /\ Len(enhanced) = Len(input)
            /\ \A j \in 1..Len(enhanced) :
                /\ enhanced[j].pythonSentence = input[j].pythonSentence
                /\ enhanced[j].title = input[j].title
                /\ enhanced[j].severity = input[j].severity
                /\ enhanced[j].categoryName = input[j].categoryName
                /\ [enhanced[j] EXCEPT !.aiEnhancement = null, !.type = "Python Generated"]
                        = input[j]
            /\ pc = "enhanced" => commentaryItems = enhanced

\* two items were enhanced with different texts
C2_Witness ==
    /\ pc = "enhanced"
    /\ Len(commentaryItems) >= 2
    /\ commentaryItems[1].aiEnhancement = "Renewals drive the variance."
    /\ commentaryItems[2].aiEnhancement = "Cloud costs rose."
    /\ commentaryItems[1].pythonSentence # commentaryItems[2].pythonSentence

-----------------------------------------------------------------------------
(* The market filter of processCSVData *)

RowsMarket ==
    { Row("APAC", "Rent", "CC-1", "Amazon", "4", "1", "row a"),
      Row("APAC", "Travel", "CC-2", "Delta", "3", "2", "row b"),
      Row("EMEA", "Rent", "CC-1", "Amazon", "2", "-1", "row c"),
      Row(undefined, "Travel", "CC-3", "Hertz", "1", "3", "row d"),
      Row("apac", "Rent", "CC-4", "Regus", "5", "-2", "row e") }

InitMarket == InitRows(RowsMarket, {"All", "JP", "Non-JP"}, {3}, {"python"})

SpecMarket == InitMarket /\ [][NextCSV]_vars

\* the rows processCSVData keeps under scope mf
KeptRows(mf) == processCSVData(rows, mf).allRows

\* the number of rows the categories computed account for
CountedRows == SumSeq([c \in 1..Len(categories) |-> categories[c].rowCount])

\* C11: scope JP keeps exactly the rows whose Market is "APAC", scope Non-JP
\* exactly the other rows (rows without Market included), scope All every row,
\* each time in the original relative order; every row is kept by exactly one
\* of JP and Non-JP; and the categories computed count exactly the kept rows.
C11_MarketFilter ==
    pc = "processed" =>
        /\ KeptRows("JP") = SelectSeq(rows, LAMBDA r : r.Market = "APAC")
        /\ KeptRows("Non-JP") = SelectSeq(rows, LAMBDA r : r.Market # "APAC")
        /\ KeptRows("All") = rows
        /\ Len(KeptRows("JP")) + Len(KeptRows("Non-JP")) = Len(rows)
        /\ \A k \in 1..Len(rows) :
              (\E a \in 1..Len(KeptRows("JP")) : KeptRows("JP")[a] = rows[k])
                  # (\E b \in 1..Len(KeptRows("Non-JP")) : KeptRows("Non-JP")[b] = rows[k])
        /\ CountedRows = Len(KeptRows(marketFilter))

\* under Non-JP a row without Market and a row of another market are kept and
\* an APAC row is dropped
C11_Witness ==
    /\ pc = "processed"
    /\ marketFilter = "Non-JP"
    /\ Len(rows) = 3
    /\ rows[1].Market = undefined
    /\ rows[2].Market = "APAC"
    /\ rows[3].Market = "EMEA"
    /\ KeptRows("Non-JP") = <<rows[1], rows[3]>>
    /\ CountedRows = 2

-----------------------------------------------------------------------------
(* Severity and direction of the commentary items *)

RowsSev ==
    { Row("APAC", "Rent", "CC-1", "Amazon", "4", "-3", "row a"),
      Row("APAC", "Rent", "CC-1", "Amazon", "4", "2", "row b"),
      Row("APAC", "Travel", "CC-2", "Delta", "1", "-0.25", "row c"),
      Row("APAC", "Travel", "CC-2", "Delta", "1", "0", "row d"),
      Row("APAC", "Fees", "CC-3", "Bank", "1", "0.75", "row e") }

InitSev == InitRows(RowsSev, {"All"}, {3}, {"python"})

SpecSev == InitSev /\ [][NextCSV]_vars

\* the entry of categories an item is about
CategoryNamed(name) ==
    categories[CHOOSE c \in 1..Len(categories) : categories[c].name = name]

\* s starts with p
HasPrefix(s, p) == Len(s) >= Len(p) /\ SubSeq(s, 1, Len(p)) = p

\* C12: the severity of every commentary item is "high" when the variance of
\* its category is >= 0 and "favorable" when it is < 0, and the factual
\* sentence says "increased" exactly when the severity is "high" and
\* "decreased" exactly when it is "favorable".
C12_SeverityFollowsSign ==
    pc = "commented" =>
        \A j \in 1..Len(commentaryItems) :
            LET item == commentaryItems[j]
                cat == CategoryNamed(item.categoryName)
            IN  /\ cat.variance >= 0 => item.severity = "high"
                /\ cat.variance < 0 => item.severity = "favorable"
                /\ HasPrefix(item.pythonSentence, cat.name \o " spend increased ")
                        <=> item.severity = "high"
                /\ HasPrefix(item.pythonSentence, cat.name \o " spend decreased ")
                        <=> item.severity = "favorable"

\* a category of variance 0 next to one of negative variance
C12_Witness ==
    /\ pc = "commented"
    /\ Len(commentaryItems) = 2
    /\ CategoryNamed(commentaryItems[1].categoryName).variance < 0
    /\ commentaryItems[1].severity = "favorable"
    /\ CategoryNamed(commentaryItems[2].categoryName).variance = 0
    /\ commentaryItems[2].severity = "high"

-----------------------------------------------------------------------------
(* Requests of enhanceWithAI *)

\* C13: at most one request is in flight, and only while fetch is awaited; a
\* request is issued only when no request is in flight and every earlier item
\* has its outcome recorded, and it is the request of the item the loop is at.
C13_RequestsSequential ==
    /\ [](/\ pending \in {0, 1}
          /\ pending = 1 <=> pc = "fetch"
          /\ pc = "fetch" =>
                /\ Len(outcomes) = itemIndex
                /\ requests[Len(requests)] = RequestOf(CurrentItem, memos))
    /\ [][requests' # requests =>
            /\ pending = 0
            /\ Len(outcomes) = itemIndex
            /\ itemIndex' = itemIndex
            /\ Len(requests') = Len(requests) + 1
            /\ SubSeq(requests', 1, Len(requests)) = requests]_vars

\* the second request is in flight after the first one was answered
C13_Witness ==
    /\ pc = "fetch"
    /\ pending = 1
    /\ Len(requests) = 2
    /\ itemIndex >= 1
    /\ outcomes[1].kind = "settled"

\* C14, as stated: an item whose response had a status outside 200..299 stays
\* factual-only (aiEnhancement null, type "Python Generated"), whatever the
\* body of the response.
C14_HttpErrorNeverEnhances ==
    InEnhance =>
        \A j \in 1..Len(outcomes) :
            (outcomes[j].kind = "settled"
                /\ outcomes[j].response.status \notin 200..299)
            => /\ enhanced[j].aiEnhancement = null
               /\ enhanced[j].type = "Python Generated"


\* the memo selection of the j-th input item
SelectionOf(input, j) == getTop85Memos(drivers, input[j].categoryName)

\* the requests the first n input items call for: one for each item whose
\* memo selection is not empty, in item order
RECURSIVE RequestsFor(_, _)
RequestsFor(input, n) ==
    IF n = 0 THEN <<>>
    ELSE RequestsFor(input, n - 1)
            \o (IF SelectionOf(input, n) = <<>> THEN <<>>
                ELSE <<RequestOf(input[n], SelectionOf(input, n))>>)

\* C15: an item with an empty memo selection causes no request and stays the
\* input item; every item with a non-empty selection causes exactly one
\* request, so the requests issued are, in order, those of the items visited
\* whose selection is not empty; and an item is replaced at most once, while
\* the loop is at it.
C15_RequestAccounting ==
    /\ [](InEnhance =>
            LET input == InputItems
                visited == IF pc \in {"fetch", "json"} THEN itemIndex + 1 ELSE itemIndex
            IN  /\ requests = RequestsFor(input, visited)
                /\ \A j \in 1..Len(outcomes) :
                    /\ outcomes[j].kind = "skipped" <=> SelectionOf(input, j) = <<>>
                    /\ outcomes[j].kind = "skipped" => enhanced[j] = input[j]
                /\ pc = "enhanced" => visited = Len(input))
    /\ [][\A j \in 1..Len(enhanced) :
            (InEnhance /\ Len(enhanced') = Len(enhanced) /\ enhanced'[j] # enhanced[j])
            => /\ j = itemIndex + 1
               /\ itemIndex' = itemIndex + 1
               /\ enhanced[j].type = "Python Generated"]_vars

\* three items: one skipped, two requested, one of them enhanced
C15_Witness ==
    /\ pc = "enhanced"
    /\ Len(commentaryItems) = 3
    /\ Len(requests) = 2
    /\ \E j \in 1..3 : outcomes[j].kind = "skipped"
    /\ \E j \in 1..3 : outcomes[j].kind = "rejected"
    /\ \E j \in 1..3 : commentaryItems[j].type = "Python + AI Generated"

-----------------------------------------------------------------------------
(* What an enhancement request contains *)

\* two drivers of one category with a memo each, the rows of CC-1 carrying
\* the same memo with different figures, and a category without any memo
RowsLeak ==
    { Row("APAC", "Cloud", "CC-1", "AWS", "10", "5", "reserved instance renewal"),
      Row("APAC", "Cloud", "CC-1", "AWS", "12", "6", "reserved instance renewal"),
      Row("APAC", "Cloud", "CC-2", "GCP", "4", "3", "committed use discount"),
      Row("APAC", "Travel", "CC-3", "Delta", "2", "-3", "sales kickoff"),
      Row("APAC", "Fees", "CC-5", "Bank", "1", "2", "") }

InitLeak == InitRows(RowsLeak, {"All"}, {3}, {"ai"})

SpecLeak == InitLeak /\ [][NextAI]_vars

\* the request in flight
CurrentRequest == requests[Len(requests)]

\* the elements of a sequence
Range(q) == {q[k] : k \in 1..Len(q)}

\* C16, as stated: the memos placed in the request of an item are memos of the
\* top-ranked driver of the item's category only.
C16_OnlyTopDriverMemos ==
    pc = "fetch" =>
        LET top == catDriversOf(drivers, CurrentItem.categoryName)[1]
        IN  /\ CurrentRequest.content =
                    PromptHead \o CurrentItem.pythonSentence \o PromptMid
                        \o memoTextOf(memos) \o PromptTail
            /\ Range(memos) \subseteq Range(top.memos)

\* the items and drivers another input would give
PipelineOf(rs) ==
    LET res == processCSVData(rs, marketFilter)
    IN  [items |-> commentaryItemsOf(res.categories, res.drivers, numComments),
         drivers |-> res.drivers]

\* C17, as stated: the content of a request does not depend on the figures:
\* an item of any other input with the same category, the same top driver
\* (cost center and supplier) and the same selected memos has the same
\* request content.
C17_ContentIndependentOfAmounts ==
    (pc = "fetch" /\ Len(requests) = 1) =>
        \A alt \in SeqsUpTo(RowsLeak, Len(rows)) :
            LET other == PipelineOf(alt)
                top == catDriversOf(drivers, CurrentItem.categoryName)[1]
            IN  \A a \in 1..Len(other.items) :
                    LET otherTop == catDriversOf(other.drivers, other.items[a].categoryName)[1]
                        otherMemos == getTop85Memos(other.drivers, other.items[a].categoryName)
                    IN  (/\ other.items[a].categoryName = CurrentItem.categoryName
                         /\ otherTop.costCenter = top.costCenter
                         /\ otherTop.supplier = top.supplier
                         /\ otherMemos = memos)
                        => RequestOf(other.items[a], otherMemos).content
                                = CurrentRequest.content

-----------------------------------------------------------------------------
(* The commentary modes of a run *)

\* if (commentary === "ai") fails (line 392): step 4 is skipped
SkipEnhance ==
    /\ pc = "commented"
    /\ commentary # "ai"
    /\ pc' = "enhanced"
    /\ progress' = 95
    /\ UNCHANGED <<uiVars, inputVars, csvVars, commentaryItems, memoVars, aiVars>>

NextRun == NextAI \/ SkipEnhance

\* the choices of the "Commentary" buttons, line 554
CommentaryChoices == {"ai", "python", "none"}

InitModes == InitRows(RowsEnh, {"All"}, {1, 3}, CommentaryChoices)

SpecModes == InitModes /\ [][NextRun]_vars

\* C18, as stated: with commentary type "none" the run ends with an empty
\* commentary list and without having issued a request.
C18_NoneGivesNoCommentary ==
    (commentary = "none" /\ pc = "enhanced") =>
        /\ commentaryItems = <<>>
        /\ requests = <<>>

-----------------------------------------------------------------------------
(* Numeric parsing of the cells *)

\* t is a decimal number and nothing else: an optional sign, digits and an
\* optional fraction
IsNumberText(t) ==
    LET u  == IF t # "" /\ Head(t) \in {"-", "+"} THEN Tail(t) ELSE t
        ip == DigitPrefix(u)
        r  == SubSeq(u, Len(ip) + 1, Len(u))
        fp == IF r # "" /\ Head(r) = "." THEN DigitPrefix(Tail(r)) ELSE ""
        rest == IF r # "" /\ Head(r) = "." THEN SubSeq(r, Len(fp) + 2, Len(r)) ELSE r
    IN  (ip # "" \/ fp # "") /\ rest = ""

\* the cell is empty, absent or, once the commas are removed, not a number
NotANumber(cell) == Falsy(cell) \/ ~IsNumberText(StripCommas(cell))

\* C19, as stated: every Amount and Variance Amount cell that is empty, absent
\* or not a number once the commas are removed parses to 0, so a row with such
\* a Variance Amount adds nothing to the variance of its category.
C19_NonNumbersParseToZero ==
    pc = "processed" =>
        /\ \A k \in 1..Len(rows) :
            /\ NotANumber(rows[k].Amount) => parseNum(rows[k].Amount) = 0
            /\ NotANumber(rows[k].VarianceAmount) => parseNum(rows[k].VarianceAmount) = 0
        /\ (Len(categories) = 1
                /\ \A k \in 1..Len(rows) : NotANumber(rows[k].VarianceAmount))
            => categories[1].variance = 0

-----------------------------------------------------------------------------
(* Rows without Supplier *)

\* the rows of a category and cost center that have no Supplier
NoSupplierRows(cat, cc) ==
    SelectSeq(rows, LAMBDA r : r.SpendCategory = cat /\ r.CostCenter = cc
                                /\ r.Supplier = undefined)

\* C20, as stated: the rows that have a category and a cost center but no
\* Supplier form exactly one driver per (category, cost center), whose supplier
\* is the unknown-supplier value; that driver counts all of these rows (none
\* is dropped) and no row that names a supplier.
C20_NoSupplierRowsOwnDriver ==
    pc = "processed" =>
        \A k \in 1..Len(rows) :
            (HasDriverKeys(rows[k]) /\ rows[k].Supplier = undefined) =>
                LET own == {j \in 1..Len(drivers) :
                                /\ drivers[j].category = rows[k].SpendCategory
                                /\ drivers[j].costCenter = rows[k].CostCenter
                                /\ drivers[j].supplier = undefined}
                IN  /\ Cardinality(own) = 1
                    /\ \A j \in own :
                        drivers[j].rowCount
                            = Len(NoSupplierRows(rows[k].SpendCategory, rows[k].CostCenter))

-----------------------------------------------------------------------------
(* runAnalysis as a whole (App.jsx lines 359-419), with the buttons that    *)
(* stay enabled while it is awaiting.  The settings panel (market scope,    *)
(* Run button) is rendered while results is null (line 495), the result     *)
(* view with its "New Analysis" button while results is set (line 627).     *)

\* the largest number of selected files considered (the code allows maxFiles)
MaxFiles == 2

\* const maxFiles = isMultiFile ? 5 : 1;
maxFiles(type) == IF type = "finance" THEN 5 ELSE 1

\* a file of two markets, its rows with memos
FileJan ==
    << Row("APAC", "Cloud", "CC-1", "AWS", "10", "5", "reserved instance renewal"),
       Row("EMEA", "Travel", "CC-3", "Delta", "2", "-3", "sales kickoff") >>

\* a file of other categories, one row without cost center
FileFeb ==
    << Row("EMEA", "Rent", "CC-4", "WeWork", "6", "2", ""),
       Row("APAC", "Fees", undefined, "Bank", "1", "1", "wire fees") >>

\* a file with a header line only
FileEmpty == << >>

FileChoices == {FileJan, FileFeb, FileEmpty}

\* no run has been started: the settings are those of the panel
InitUI ==
    /\ pc = "idle"
    /\ analysisType \in {"accounting", "finance"}
    /\ files \in {fs \in SeqsUpTo(FileChoices, MaxFiles) : Len(fs) <= maxFiles(analysisType)}
    /\ market \in MarketChoices
    /\ commentary \in CommentaryChoices
    /\ numComments = 3
    /\ analyzing = FALSE
    /\ progress = 0
    /\ results = NullResults
    /\ rows = <<>>
    /\ marketFilter = MarketFilterOf(market)
    /\ NoData

\* onClick={runAnalysis} of the Run button (disabled={!hasFiles || analyzing},
\* line 607): lines 360-372 up to the first await.  The call works on the
\* state of the render it was created in: its market, hence its marketFilter
\* (line 379), is the market at the time of the click.
RunAnalysis ==
    /\ results = NullResults
    /\ files # <<>>
    /\ ~analyzing
    /\ analyzing' = TRUE
    /\ progress' = 10
    /\ results' = NullResults
    /\ marketFilter' = MarketFilterOf(market)
    /\ rows' = <<>>
    /\ categories' = <<>>
    /\ drivers' = <<>>
    /\ commentaryItems' = <<>>
    /\ memoCategory' = ""
    /\ memos' = <<>>
    /\ enhanced' = <<>>
    /\ itemIndex' = 0
    /\ response' = NoResponse
    /\ requests' = <<>>
    /\ pending' = 0
    /\ outcomes' = <<>>
    /\ pc' = "reading"
    /\ UNCHANGED <<analysisType, files, market, numComments, commentary>>

\* await file.text() of files[0] resolves: lines 372-377 (Papa.parse, progress 25)
FileResolve ==
    /\ pc = "reading"
    /\ rows' = files[1]
    /\ progress' = 25
    /\ pc' = "start"
    /\ UNCHANGED <<uiVars, marketFilter, numComments, commentary, csvVars,
                   commentaryItems, memoVars, aiVars>>

\* the rejection is caught and analyzing is not reset
FileReject_NoFinally ==
    /\ pc = "reading"
    /\ pc' = "failed"
    /\ UNCHANGED <<uiVars, progress, inputVars, csvVars, commentaryItems,
                   memoVars, aiVars>>

\* await file.text() rejects: the catch block (lines 413-415) and the finally
\* block (line 417) run
FileReject ==
    /\ pc = "reading"
    /\ analyzing' = FALSE
    /\ pc' = "failed"
    /\ UNCHANGED <<analysisType, files, market, results, progress, inputVars,
                   csvVars, commentaryItems, memoVars, aiVars>>

\* the argument of setResults, lines 402-411
Bundle ==
    [categories |-> categories,
     drivers |-> drivers,
     commentary |-> commentaryItems,
     market |-> marketFilter,
     commentaryType |-> commentary,
     analysisType |-> analysisType,
     files |-> files,
     rowCount |-> Len(rows)]

\* after the last timer: setResults, setProgress(100) and the finally block
\* (lines 402-417)
Finish ==
    /\ pc = "enhanced"
    /\ analyzing
    /\ results' = Bundle
    /\ progress' = 100
    /\ analyzing' = FALSE
    /\ pc' = "done"
    /\ UNCHANGED <<analysisType, files, market, inputVars, csvVars,
                   commentaryItems, memoVars, aiVars>>

\* onClick={() => setMarket(o.v)} of a market scope button, line 547
SetMarket ==
    /\ results = NullResults
    /\ \E v \in MarketChoices : market' = v
    /\ UNCHANGED <<analysisType, files, analyzing, results, progress, inputVars,
                   pc, csvVars, commentaryItems, memoVars, aiVars>>

\* onClick={() => { setResults(null); setFiles([]); }} of line 638
NewAnalysis ==
    /\ results # NullResults
    /\ results' = NullResults
    /\ files' = <<>>
    /\ pc' = "idle"
    /\ UNCHANGED <<analysisType, market, analyzing, progress, inputVars,
                   csvVars, commentaryItems, memoVars, aiVars>>

\* the steps of a run after the click
RunStep ==
    \/ FileResolve
    \/ FileReject
    \/ NextRun
    \/ Finish

NextUI ==
    \/ RunAnalysis
    \/ RunStep
    \/ SetMarket
    \/ NewAnalysis

SpecUI == InitUI /\ [][NextUI]_vars

\* const marketLabel = ..., line 421
marketLabelOf(m) ==
    IF m = "all" THEN "Consolidated (All Markets)"
    ELSE IF m = "nonjp" THEN "Non-JP Markets" ELSE "JP Market"

\* the label the result view of line 635 shows: that of the market state of the
\* render
marketLabel == marketLabelOf(market)

-----------------------------------------------------------------------------
(* The files a run reads *)

\* what a run computes from the selected files fs under scope mf: lines 371-380
\* (const file = files[0]; ... processCSVData(parsed.data, marketFilter))
AnalysisOf(fs, mf) ==
    LET res == processCSVData(fs[1], mf)
    IN  [categories |-> res.categories, drivers |-> res.drivers]

\* C21, as stated: in Financial Variance (MoM) mode with two or more selected
\* files, every selected file contributes to the categories and drivers of the
\* result: for each position there is a content of the file at that position
\* that changes them.
C21_EverySelectedFileContributes ==
    (results # NullResults /\ results.analysisType = "finance" /\ Len(results.files) >= 2)
        => \A k \in 1..Len(results.files) :
              \E f \in FileChoices :
                  AnalysisOf([results.files EXCEPT ![k] = f], results.market)
                      # [categories |-> results.categories, drivers |-> results.drivers]

-----------------------------------------------------------------------------
(* The denominator of variancePct *)

\* the unrounded prior of the category named name: sum of Amount minus sum of
\* Variance Amount
PriorSum(name) == AmountSum(name) - VarianceSum(name)

-----------------------------------------------------------------------------
(* Driver attribution *)

\* drivers of equal |variance| within a category and across categories, a
\* driver fed by two rows, a driver without supplier and one whose supplier is
\* named "undefined", a row without cost center
RowsAttr ==
    { Row("APAC", "Cloud", "CC-1", "AWS", "10", "5", "m1"),
      Row("APAC", "Cloud", "CC-2", "GCP", "10", "-5", "m2"),
      Row("APAC", "Cloud", "CC-1", "AWS", "10", "2", "m3"),
      Row("APAC", "Travel", "CC-3", "Delta", "4", "5", "m4"),
      Row("APAC", "Cloud", "CC-2", undefined, "1", "3", ""),
      Row("APAC", "Cloud", "CC-2", "undefined", "1", "2", "m5"),
      Row("APAC", "Travel", undefined, "Hertz", "1", "9", "m6") }

InitAttr == InitRows(RowsAttr, {"All"}, {3}, {"python"})

SpecAttr == InitAttr /\ [][NextCSV]_vars

\* the position, in the filtered rows, of the first row that has the triple
\* of driver d
FirstRowOf(d) ==
    LET f == filtered(rows, marketFilter)
    IN  CHOOSE k \in 1..Len(f) :
            /\ HasDriverKeys(f[k])
            /\ <<f[k].SpendCategory, f[k].CostCenter, f[k].Supplier>> = TripleOf(d)
            /\ \A j \in 1..(k - 1) :
                  ~(/\ HasDriverKeys(f[j])
                    /\ <<f[j].SpendCategory, f[j].CostCenter, f[j].Supplier>> = TripleOf(d))

HasSuffix(s, p) == Len(s) >= Len(p) /\ SubSeq(s, Len(s) - Len(p) + 1, Len(s)) = p

\* the positions in drivers of the drivers of the category named name
DriversOfCategory(name) == {k \in 1..Len(drivers) : drivers[k].category = name}

\* C23: the drivers are in descending |variance| order, drivers of equal
\* |variance| in the order in which their triples first appear in the rows;
\* and the factual sentence of a category names the cost center and the
\* supplier of the first driver of that category in this order, which has the
\* largest |variance| of the category.
C23_DriverAttribution ==
    pc = "commented" =>
        /\ \A i \in 1..Len(drivers) : \A j \in (i + 1)..Len(drivers) :
              \/ Abs(drivers[i].variance) > Abs(drivers[j].variance)
              \/ /\ Abs(drivers[i].variance) = Abs(drivers[j].variance)
                 /\ FirstRowOf(drivers[i]) < FirstRowOf(drivers[j])
        /\ \A k \in 1..Len(commentaryItems) :
              LET own == DriversOfCategory(commentaryItems[k].categoryName)
              IN  /\ own # {}
                  /\ LET top == drivers[CHOOSE i \in own : \A j \in own : i <= j]
                     IN  /\ \A j \in own :
                               Abs(top.variance) >= Abs(drivers[j].variance)
                         /\ HasSuffix(commentaryItems[k].pythonSentence,
                                      "driven primarily by " \o ToStr(top.costCenter)
                                        \o " (" \o fmtVar(top.variance) \o " via "
                                        \o ToStr(top.supplier) \o ").")

\* two drivers of one category have the same |variance| and different cost
\* centers, and the category has a commentary item
C23_Witness ==
    /\ pc = "commented"
    /\ \E i \in 1..Len(drivers) : \E j \in 1..Len(drivers) :
          /\ i < j
          /\ drivers[i].category = drivers[j].category
          /\ drivers[i].costCenter # drivers[j].costCenter
          /\ Abs(drivers[i].variance) = Abs(drivers[j].variance)
          /\ \E k \in 1..Len(commentaryItems) :
                commentaryItems[k].categoryName = drivers[i].category

-----------------------------------------------------------------------------
(* Termination of a run *)

\* The steps of a run are continuations the event loop runs once the awaited
\* promise or timer has settled, and every awaited promise settles (the reader
\* resolves or rejects, the request resolves or rejects, the timers fire): each
\* step of a run is taken if it stays possible.
\* the steps of a run other than the computation of processCSVData
StepsAround ==
    \/ FileResolve
    \/ FileReject
    \/ GenCommentary
    \/ EnhanceStart
    \/ SkipEnhance
    \/ LoopExit
    \/ LoopSkip
    \/ LoopFetch
    \/ FetchReject
    \/ FetchResolve
    \/ JsonSettle
    \/ Finish

\* weak fairness of ProcessCSV, whose enabling condition is its guard
\* pc = "start" (the step always changes pc): a run does not stay at the call
\* of processCSVData for ever
CSVFair == []<>(pc # "start") \/ []<><<ProcessCSV>>_vars

SpecUIFair == SpecUI /\ WF_vars(StepsAround) /\ CSVFair

\* C24: every run eventually reaches analyzing = false; it ends either with
\* results set to the complete bundle of the run and progress 100, or with
\* results left null; while it runs results is null, so no partially filled
\* bundle is ever seen.
C24_RunTerminates ==
    /\ analyzing ~> ~analyzing
    /\ [](analyzing <=> pc \in {"reading", "start", "processed", "commented",
                                 "loop", "fetch", "json", "enhanced"})
    /\ [](analyzing => results = NullResults)
    /\ [](pc = "done" => ~analyzing /\ results = Bundle /\ progress = 100)
    /\ [](pc = "failed" => ~analyzing /\ results = NullResults)
    /\ [][(analyzing /\ ~analyzing') => pc' \in {"done", "failed"}]_vars

\* a run in AI mode has ended with its bundle after a request that failed
C24_Witness ==
    /\ pc = "done"
    /\ ~analyzing
    /\ progress = 100
    /\ results.commentaryType = "ai"
    /\ \E k \in 1..Len(outcomes) : outcomes[k].kind = "rejected"


(***************************************************************************)
(* C25: the market label of the result view                                *)
(***************************************************************************)

\* C25 (as stated): whenever results are shown, the label next to them is the
\* label of the market scope the results were computed with: results.market is
\* the filter of a market choice whose label is the one displayed.
C25_LabelNamesResultsMarket ==
    results # NullResults =>
        \E m \in MarketChoices :
            /\ MarketFilterOf(m) = results.market
            /\ marketLabel = marketLabelOf(m)


(***************************************************************************)
(* C26: the type of an item and its aiEnhancement                          *)
(***************************************************************************)

\* C26 (as stated): in the list enhanceWithAI works on and returns, an item has
\* type "Python + AI Generated" exactly when its aiEnhancement is a non-empty
\* string; a response of white space only leaves the item factual-only.
C26_AITypeIffNonEmptyText ==
    InEnhance =>
        \A j \in 1..Len(enhanced) :
            (enhanced[j].type = "Python + AI Generated")
                <=> (enhanced[j].aiEnhancement \notin {null, ""})


(***************************************************************************)
(* C27: the key of a driver                                                *)
(***************************************************************************)

RowTriple(r) == <<r.SpendCategory, r.CostCenter, r.Supplier>>

\* the memos the driver entry d has collected, one per row merged into it
MemosOf(d) == {d.memos[k] : k \in 1..Len(d.memos)}

\* C27 (as stated): two rows that have a category and a cost center and whose
\* (category, costCenter, supplier) triples differ in any component are never
\* merged into the same driver entry: no driver holds the memos of both.
C27_DriverKeysInjective ==
    pc = "processed" =>
        \A j, k \in 1..Len(rows) :
            (/\ HasDriverKeys(rows[j])
             /\ HasDriverKeys(rows[k])
             /\ RowTriple(rows[j]) # RowTriple(rows[k]))
                => ~\E i \in 1..Len(drivers) :
                        {rows[j].LineMemo, rows[k].LineMemo} \subseteq MemosOf(drivers[i])


(***************************************************************************)
(* C28: references between categories, drivers and commentary items        *)
(***************************************************************************)

\* the sum of the rowCounts of the drivers whose category field is name
DriverRowCount(name) ==
    LET ds == SelectSeq(drivers, LAMBDA d : d.category = name)
    IN  SumSeq([k \in 1..Len(ds) |-> ds[k].rowCount])

\* C28 (as stated): every driver's category and every commentary item's
\* categoryName names an entry of categories, the category of every
\* commentary item has a driver, and for every category the rowCounts of its
\* drivers sum to at most its own rowCount, and to exactly that when each of
\* its rows has a cost center.
C28_ReferentialConsistency ==
    pc \in {"processed", "commented"} =>
        LET names == {categories[i].name : i \in 1..Len(categories)}
        IN  /\ \A k \in 1..Len(drivers) : drivers[k].category \in names
            /\ \A n \in 1..Len(commentaryItems) :
                  /\ commentaryItems[n].categoryName \in names
                  /\ HasDriver(commentaryItems[n].categoryName)
            /\ \A i \in 1..Len(categories) :
                  LET c == categories[i]
                      rs == RowsOfCategory(c.name)
                  IN  /\ DriverRowCount(c.name) <= c.rowCount
                      /\ (\A j \in 1..Len(rs) : ~Falsy(rs[j].CostCenter))
                            => DriverRowCount(c.name) = c.rowCount


(***************************************************************************)
(* C29: the rowCount of the result bundle                                  *)
(***************************************************************************)

\* C29 (as stated): the rowCount of the result bundle is the number of rows of
\* the run that passed the market filter of the bundle's market scope, the
\* rows its categories and drivers were aggregated from.
C29_RowCountIsFilteredCount ==
    pc = "done" =>
        /\ results.categories = processCSVData(rows, results.market).categories
        /\ results.rowCount = Len(filtered(rows, results.market))


(***************************************************************************)
(* C30: the three rounded figures of a category                            *)
(***************************************************************************)

\* current - (prior + variance) of a category entry
Discrepancy(c) == c.current - (c.prior + c.variance)

\* C30: for every category entry, whose prior, current and variance are each
\* rounded on their own, current differs from prior + variance by at most 1.
C30_RoundingDiscrepancyBounded ==
    pc # "start" =>
        \A i \in 1..Len(categories) :
            /\ Discrepancy(categories[i]) \in {-1, 0, 1}
            /\ categories[i].current = MathRound(AmountSum(categories[i].name))
            /\ categories[i].prior = MathRound(AmountSum(categories[i].name)
                                                 - VarianceSum(categories[i].name))
            /\ categories[i].variance = MathRound(VarianceSum(categories[i].name))

\* a category whose figures do not add up: current is prior + variance + 1
C30_Witness ==
    /\ pc = "processed"
    /\ \E i \in 1..Len(categories) :
          /\ Discrepancy(categories[i]) = 1
          /\ categories[i].variance # 0

====
